---- MODULE Spec2Model ----
(***************************************************************************)
(* Response/error normalisation layer of the FastAPI backend:              *)
(*   backend/app/utils/responses.py      the three envelope builders       *)
(*   backend/app/utils/exceptions.py     the domain exception hierarchy    *)
(*   backend/app/middleware/error_middleware.py  the four handlers         *)
(*   backend/app/main.py, routes/health.py       registration, endpoints   *)
(*                                                                         *)
(* Python values are modelled as follows.                                  *)
(*   - a payload (the `data` argument, typed Any) is a record              *)
(*     [kind, repr]: its Python type name and its literal;                 *)
(*   - an Optional[str] is a sequence: <<>> is None, <<s>> is the str s;   *)
(*   - an Optional[Dict[str, Any]] is [kind, items] with items a function; *)
(*   - a dict body is a TLA+ function/record: its DOMAIN is its key set;   *)
(*   - a location segment of a validation error is [str |-> s] or          *)
(*     [int |-> n].                                                        *)
(***************************************************************************)
EXTENDS Integers, Sequences, FiniteSets, TLC

VARIABLES pc, exc, sent, call

vars == <<pc, exc, sent, call>>

(***************************************************************************)
(* Bounds of the model.                                                    *)
(***************************************************************************)
MaxTotal == 25
MaxPage == 3
MaxPageSize == 10
MaxErrors == 2

(***************************************************************************)
(* fastapi.status constants used by the code.                              *)
(***************************************************************************)
HTTP_200_OK == 200
HTTP_401_UNAUTHORIZED == 401
HTTP_403_FORBIDDEN == 403
HTTP_404_NOT_FOUND == 404
HTTP_409_CONFLICT == 409
HTTP_422_UNPROCESSABLE_ENTITY == 422
HTTP_500_INTERNAL_SERVER_ERROR == 500

(***************************************************************************)
(* Python values.                                                          *)
(***************************************************************************)
None == [kind |-> "NoneType", repr |-> "None"]

PyVal(kind, repr) == [kind |-> kind, repr |-> repr]

NoErrors == [kind |-> "NoneType", items |-> <<>>]

Dict(f) == [kind |-> "dict", items |-> f]

\* bool(errors) for an Optional[Dict]: None and {} are falsy.
TruthyDict(d) == d.kind # "NoneType" /\ DOMAIN d.items # {}

\* bool(s) for an Optional[str]: None and "" are falsy.
TruthyStr(s) == s # <<>> /\ s[1] # ""

(***************************************************************************)
(* fastapi.responses.JSONResponse(status_code=..., content=...): the       *)
(* transport status, the JSON body and the headers of the response.  The   *)
(* builders pass no headers, so only the media type header is set.         *)
(***************************************************************************)
JSONResponse(status_code, content) ==
    [status_code |-> status_code,
     body        |-> content,
     headers     |-> {<<"content-type", "application/json">>}]

(***************************************************************************)
(* utils/responses.py                                                      *)
(***************************************************************************)
\* `if data:` in place of `if data is not None:`; None, 0, False, "", []
\* and {} are falsy.
success_response_truthy(data, message, status_code) ==
    LET response_data == [success     |-> TRUE,
                          message     |-> message,
                          status_code |-> status_code]
    IN  JSONResponse(status_code,
                     IF /\ data.kind # "NoneType"
                        /\ data.repr \notin {"0", "False", "", "[]", "{}"}
                     THEN response_data @@ [data |-> data]
                     ELSE response_data)

success_response(data, message, status_code) ==
    LET response_data == [success     |-> TRUE,
                          message     |-> message,
                          status_code |-> status_code]
    IN  JSONResponse(status_code,
                     IF data # None
                     THEN response_data @@ [data |-> data]
                     ELSE response_data)

\* `if errors is not None:` in place of `if errors:`.
error_response_not_none(message, status_code, errors) ==
    LET response_data == [success     |-> FALSE,
                          message     |-> message,
                          status_code |-> status_code]
    IN  JSONResponse(status_code,
                     IF errors.kind # "NoneType"
                     THEN response_data @@ [errors |-> errors.items]
                     ELSE response_data)

\* An error envelope that also carries a null `data` key.
error_response_data_key(message, status_code, errors) ==
    LET response_data == [success     |-> FALSE,
                          message     |-> message,
                          status_code |-> status_code,
                          data        |-> None]
    IN  JSONResponse(status_code,
                     IF TruthyDict(errors)
                     THEN response_data @@ [errors |-> errors.items]
                     ELSE response_data)

\* JSONResponse built without status_code=..., so with its default 200.
error_response_default_status(message, status_code, errors) ==
    LET response_data == [success     |-> FALSE,
                          message     |-> message,
                          status_code |-> status_code]
    IN  JSONResponse(HTTP_200_OK,
                     IF TruthyDict(errors)
                     THEN response_data @@ [errors |-> errors.items]
                     ELSE response_data)

error_response(message, status_code, errors) ==
    LET response_data == [success     |-> FALSE,
                          message     |-> message,
                          status_code |-> status_code]
    IN  JSONResponse(status_code,
                     IF TruthyDict(errors)
                     THEN response_data @@ [errors |-> errors.items]
                     ELSE response_data)

\* total // page_size in place of the ceiling division.
paginated_response_floor(data, total, page, page_size, message) ==
    LET total_pages == total \div page_size
    IN  JSONResponse(HTTP_200_OK,
            [success     |-> TRUE,
             message     |-> message,
             status_code |-> HTTP_200_OK,
             data        |-> data,
             pagination  |-> [total       |-> total,
                              page        |-> page,
                              page_size   |-> page_size,
                              total_pages |-> total_pages,
                              has_next    |-> page < total_pages,
                              has_previous |-> page > 1]])

paginated_response(data, total, page, page_size, message) ==
    LET total_pages == (total + page_size - 1) \div page_size
    IN  JSONResponse(HTTP_200_OK,
            [success     |-> TRUE,
             message     |-> message,
             status_code |-> HTTP_200_OK,
             data        |-> data,
             pagination  |-> [total       |-> total,
                              page        |-> page,
                              page_size   |-> page_size,
                              total_pages |-> total_pages,
                              has_next    |-> page < total_pages,
                              has_previous |-> page > 1]])

(***************************************************************************)
(* utils/exceptions.py: every exception object is a record holding its     *)
(* class name and the attributes HTTPException.__init__ stores.  `self` is *)
(* the class being constructed; headers=None is the empty set of headers.  *)
(***************************************************************************)
BaseAPIException(self, status_code, detail, headers) ==
    [cls         |-> self,
     status_code |-> status_code,
     detail      |-> detail,
     headers     |-> headers]

NotFoundException(resource, resource_id) ==
    LET detail == IF TruthyStr(resource_id)
                  THEN resource \o " with id '" \o resource_id[1] \o "' not found"
                  ELSE resource \o " not found"
    IN  BaseAPIException("NotFoundException", HTTP_404_NOT_FOUND, detail, {})

ValidationException(detail) ==
    BaseAPIException("ValidationException", HTTP_422_UNPROCESSABLE_ENTITY,
                     detail, {})

AuthenticationException(detail) ==
    BaseAPIException("AuthenticationException", HTTP_401_UNAUTHORIZED,
                     detail, {<<"WWW-Authenticate", "Bearer">>})

AuthorizationException(detail) ==
    BaseAPIException("AuthorizationException", HTTP_403_FORBIDDEN, detail, {})

DatabaseException(detail) ==
    BaseAPIException("DatabaseException", HTTP_500_INTERNAL_SERVER_ERROR,
                     detail, {})

ConflictException(detail) ==
    BaseAPIException("ConflictException", HTTP_409_CONFLICT, detail, {})

\* The failures the handlers of main.py are registered for, besides the
\* domain exceptions: a transport-level HTTPException, a request-validation
\* error carrying its list of field errors, and any other Exception.
StarletteHTTPException(status_code, detail) ==
    [cls         |-> "StarletteHTTPException",
     status_code |-> status_code,
     detail      |-> detail,
     headers     |-> {}]

RequestValidationError(errors) ==
    [cls |-> "RequestValidationError", errors |-> errors]

UnclassifiedException(text) == [cls |-> "Exception", args |-> text]

NoException == [cls |-> "NoneType"]

DomainClasses ==
    {"NotFoundException", "ValidationException", "AuthenticationException",
     "AuthorizationException", "DatabaseException", "ConflictException"}

\* Method resolution order of each exception class: the domain categories
\* refine BaseAPIException, which refines fastapi's HTTPException.
MRO(cls) ==
    IF cls \in DomainClasses
    THEN <<cls, "BaseAPIException", "HTTPException",
           "StarletteHTTPException", "Exception">>
    ELSE IF cls = "BaseAPIException"
    THEN <<cls, "HTTPException", "StarletteHTTPException", "Exception">>
    ELSE IF cls = "StarletteHTTPException"
    THEN <<cls, "Exception">>
    ELSE IF cls = "RequestValidationError"
    THEN <<cls, "Exception">>
    ELSE <<"Exception">>

(***************************************************************************)
(* main.py: the handlers in registration order, and the handler that       *)
(* serves an exception: the one registered for the first class of the      *)
(* exception's MRO that has a handler.                                     *)
(***************************************************************************)
exception_handlers ==
    << <<"Exception",               "global_exception_handler">>,
       <<"StarletteHTTPException",  "http_exception_handler">>,
       <<"RequestValidationError",  "validation_exception_handler">>,
       <<"BaseAPIException",        "base_api_exception_handler">> >>

HandlerNames == {exception_handlers[i][2] : i \in DOMAIN exception_handlers}

RegisteredFor(cls) ==
    {i \in DOMAIN exception_handlers : exception_handlers[i][1] = cls}

\* isinstance matching in registration order: the first registered class
\* the exception is an instance of.
lookup_handler_first_registered(e) ==
    LET mro == MRO(e.cls)
        classes == {mro[i] : i \in DOMAIN mro}
        hits == {i \in DOMAIN exception_handlers :
                     exception_handlers[i][1] \in classes}
    IN  IF hits = {} THEN "unhandled"
        ELSE exception_handlers[CHOOSE i \in hits :
                                    \A j \in hits : i <= j][2]

lookup_handler(e) ==
    LET mro == MRO(e.cls)
        hits == {i \in DOMAIN mro : RegisteredFor(mro[i]) # {}}
    IN  IF hits = {} THEN "unhandled"
        ELSE LET first == CHOOSE i \in hits : \A j \in hits : i <= j
                 regs == RegisteredFor(mro[first])
             IN  exception_handlers[CHOOSE i \in regs :
                                        \A j \in regs : i >= j][2]

(***************************************************************************)
(* middleware/error_middleware.py                                          *)
(***************************************************************************)
global_exception_handler(e) ==
    error_response("Internal server error", HTTP_500_INTERNAL_SERVER_ERROR,
                   NoErrors)

http_exception_handler(e) ==
    error_response(e.detail, e.status_code, NoErrors)

\* str(loc) of one location segment.
Str(seg) == IF "str" \in DOMAIN seg THEN seg.str ELSE ToString(seg.int)

\* loc != "body": an int never equals a str.
NotBody(seg) == ~("str" \in DOMAIN seg /\ seg.str = "body")

RECURSIVE Join(_, _)
Join(sep, strs) ==
    IF strs = <<>> THEN ""
    ELSE IF Len(strs) = 1 THEN strs[1]
    ELSE strs[1] \o sep \o Join(sep, Tail(strs))

\* ".".join(str(loc) for loc in error["loc"] if loc != "body")
FieldKey(loc) ==
    LET kept == SelectSeq(loc, NotBody)
    IN  Join(".", [i \in DOMAIN kept |-> Str(kept[i])])

\* The loop of validation_exception_handler: errors[field] = error["msg"]
\* for every reported error, in iteration order.
\* The first message reported for a key is kept: errors.setdefault(field,
\* error["msg"]) in place of errors[field] = error["msg"].
RECURSIVE CollectErrors_first_wins(_, _)
CollectErrors_first_wins(reported, errors) ==
    IF reported = <<>> THEN errors
    ELSE LET field == FieldKey(Head(reported).loc)
             msg   == Head(reported).msg
         IN  CollectErrors_first_wins(Tail(reported),
                 [k \in DOMAIN errors \cup {field} |->
                      IF k \in DOMAIN errors THEN errors[k] ELSE msg])

RECURSIVE CollectErrors(_, _)
CollectErrors(reported, errors) ==
    IF reported = <<>> THEN errors
    ELSE LET field == FieldKey(Head(reported).loc)
             msg   == Head(reported).msg
         IN  CollectErrors(Tail(reported),
                 [k \in DOMAIN errors \cup {field} |->
                      IF k = field THEN msg ELSE errors[k]])

validation_exception_handler(e) ==
    error_response("Validation error", HTTP_422_UNPROCESSABLE_ENTITY,
                   Dict(CollectErrors(e.errors, <<>>)))

\* The domain exception answered like an unclassified one.
base_api_exception_handler_generic(e) ==
    error_response("Internal server error", HTTP_500_INTERNAL_SERVER_ERROR,
                   NoErrors)

base_api_exception_handler(e) ==
    error_response(e.detail, e.status_code, NoErrors)

(***************************************************************************)
(* config.py, main.py, routes/health.py                                    *)
(***************************************************************************)
APP_NAME == "FastAPI E-Commerce Backend"

ENVIRONMENT == "development"

\* app.__version__, imported by main.py and routes/health.py.
version == "1.0.0"

\* The dict the root endpoint returns; the framework serialises a returned
\* dict as the JSON body of a 200 response.
root ==
    JSONResponse(HTTP_200_OK,
        [message |-> "Welcome to " \o APP_NAME,
         version |-> version,
         docs    |-> "/docs",
         health  |-> "/api/v1/health"])

\* now is datetime.utcnow().isoformat()
health_check(now) ==
    success_response(
        PyVal("dict", "{status: healthy, timestamp: " \o now
                      \o ", service: " \o APP_NAME
                      \o ", version: " \o version
                      \o ", environment: " \o ENVIRONMENT \o "}"),
        "Service is healthy", HTTP_200_OK)

detailed_health_check(now) ==
    success_response(
        PyVal("dict", "{status: healthy, timestamp: " \o now
                      \o ", service: {name: " \o APP_NAME
                      \o ", version: " \o version
                      \o ", environment: " \o ENVIRONMENT
                      \o ", debug: True}"
                      \o ", server: {host: 0.0.0.0, port: 8000}"
                      \o ", database: {url: sqlite://***}}"),
        "Service is healthy", HTTP_200_OK)

(***************************************************************************)
(* Inputs.                                                                 *)
(***************************************************************************)
Payloads ==
    {None,
     PyVal("list", "[]"),  PyVal("list", "[1, 2]"),
     PyVal("dict", "{}"),  PyVal("dict", "{id: 1}"),
     PyVal("int", "0"),    PyVal("int", "7"),
     PyVal("bool", "False"), PyVal("bool", "True"),
     PyVal("str", ""),     PyVal("str", "text")}

Pages == {PyVal("list", "[]"), PyVal("list", "[1, 2]")}

SuccessMessages == {"Success", "Created"}

SuccessCodes == {200, 201}

ErrorMessages == {"An error occurred", "Bad request"}

ErrorCodes == {400, 500}

FieldErrors ==
    {NoErrors,
     Dict(<<>>),
     Dict([name |-> "required"]),
     Dict([name |-> "required", price |-> "must be positive"])}

Clock == {"2024-01-01T00:00:00", "2024-01-01T00:00:01"}

Details == {"", "custom detail"}

Resources == {"Resource", "Item"}

ResourceIds == {<<>>, <<"">>, <<"42">>}

S(s) == [str |-> s]

I(n) == [int |-> n]

\* Locations as the framework reports them: the request part first, then
\* the path of the field inside it.
Locs ==
    {<<S("body"), S("name")>>,
     <<S("body"), S("price")>>,
     <<S("body"), S("body")>>,
     <<S("body"), S("items"), I(0)>>,
     <<S("query"), S("page")>>,
     <<S("body")>>}

Msgs == {"required", "must be positive"}

Reported == [loc : Locs, msg : Msgs]

RECURSIVE SeqsUpTo(_, _)
SeqsUpTo(set, n) ==
    IF n = 0 THEN {<<>>}
    ELSE LET shorter == SeqsUpTo(set, n - 1)
         IN  shorter \cup {Append(q, x) : q \in shorter, x \in set}

\* A request-validation error always reports at least one field error.
ReportedLists == SeqsUpTo(Reported, MaxErrors) \ {<<>>}

\* The domain exceptions built from a detail string; the not-found failures
\* are built from a resource name and an optional id, see RaiseNotFound.
DomainExceptions ==
    {ValidationException(d) : d \in Details \cup {"Validation error"}}
    \cup {AuthenticationException(d) :
              d \in Details \cup {"Authentication failed"}}
    \cup {AuthorizationException(d) :
              d \in Details \cup {"Insufficient permissions"}}
    \cup {DatabaseException(d) :
              d \in Details \cup {"Database operation failed"}}
    \cup {ConflictException(d) : d \in Details \cup {"Resource conflict"}}

TransportExceptions ==
    {StarletteHTTPException(404, "Not Found"),
     StarletteHTTPException(405, "Method Not Allowed"),
     StarletteHTTPException(400, "custom detail")}

UnclassifiedExceptions ==
    {UnclassifiedException(t) : t \in {"division by zero", "key error"}}

(***************************************************************************)
(* The application serving requests, one at a time.  `pc` is "idle"        *)
(* between requests, "raised" while an exception travels to its handler    *)
(* and "done" once the response is built; `sent` holds the responses sent  *)
(* for the current request, `call` what produced the last one with the     *)
(* arguments it was given, `exc` the exception the request raised.         *)
(***************************************************************************)
Init ==
    /\ pc = "idle"
    /\ exc = NoException
    /\ sent = <<>>
    /\ call = [fn |-> "none"]

Root ==
    /\ pc = "idle"
    /\ sent' = <<root>>
    /\ call' = [fn |-> "root"]
    /\ exc' = NoException
    /\ pc' = "done"

HealthCheck ==
    /\ pc = "idle"
    /\ \E now \in Clock :
          /\ sent' = <<health_check(now)>>
          /\ call' = [fn |-> "health_check", now |-> now]
    /\ exc' = NoException
    /\ pc' = "done"

DetailedHealthCheck ==
    /\ pc = "idle"
    /\ \E now \in Clock :
          /\ sent' = <<detailed_health_check(now)>>
          /\ call' = [fn |-> "detailed_health_check", now |-> now]
    /\ exc' = NoException
    /\ pc' = "done"

SuccessResponse ==
    /\ pc = "idle"
    /\ \E data \in Payloads, message \in SuccessMessages,
          status_code \in SuccessCodes :
          /\ sent' = <<success_response(data, message, status_code)>>
          /\ call' = [fn |-> "success_response", data |-> data,
                      message |-> message, status_code |-> status_code]
    /\ exc' = NoException
    /\ pc' = "done"

ErrorResponse ==
    /\ pc = "idle"
    /\ \E message \in ErrorMessages, status_code \in ErrorCodes,
          errors \in FieldErrors :
          /\ sent' = <<error_response(message, status_code, errors)>>
          /\ call' = [fn |-> "error_response", message |-> message,
                      status_code |-> status_code, errors |-> errors]
    /\ exc' = NoException
    /\ pc' = "done"

PaginatedResponse ==
    /\ pc = "idle"
    /\ \E data \in Pages, total \in 0..MaxTotal, page \in 1..MaxPage,
          page_size \in 1..MaxPageSize :
          /\ sent' = <<paginated_response(data, total, page, page_size,
                                          "Success")>>
          /\ call' = [fn |-> "paginated_response", data |-> data,
                      total |-> total, page |-> page,
                      page_size |-> page_size, message |-> "Success"]
    /\ exc' = NoException
    /\ pc' = "done"

\* A request fails: its exception travels to the registered handlers.
Raise ==
    /\ pc = "idle"
    /\ \E e \in DomainExceptions \cup TransportExceptions
                \cup UnclassifiedExceptions
                \cup {RequestValidationError(r) : r \in ReportedLists} :
          exc' = e
    /\ pc' = "raised"
    /\ sent' = <<>>
    /\ call' = [fn |-> "raise"]

\* A request fails with NotFoundException(resource, resource_id); `call`
\* keeps the arguments the exception was built with.
RaiseNotFound ==
    /\ pc = "idle"
    /\ \E resource \in Resources, resource_id \in ResourceIds :
          /\ exc' = NotFoundException(resource, resource_id)
          /\ call' = [fn |-> "raise", resource |-> resource,
                      resource_id |-> resource_id]
    /\ pc' = "raised"
    /\ sent' = <<>>

GlobalExceptionHandler ==
    /\ pc = "raised"
    /\ lookup_handler(exc) = "global_exception_handler"
    /\ sent' = Append(sent, global_exception_handler(exc))
    /\ call' = [fn |-> "global_exception_handler"]
    /\ pc' = "done"
    /\ UNCHANGED exc

HttpExceptionHandler ==
    /\ pc = "raised"
    /\ lookup_handler(exc) = "http_exception_handler"
    /\ sent' = Append(sent, http_exception_handler(exc))
    /\ call' = [fn |-> "http_exception_handler"]
    /\ pc' = "done"
    /\ UNCHANGED exc

ValidationExceptionHandler ==
    /\ pc = "raised"
    /\ lookup_handler(exc) = "validation_exception_handler"
    /\ sent' = Append(sent, validation_exception_handler(exc))
    /\ call' = [fn |-> "validation_exception_handler"]
    /\ pc' = "done"
    /\ UNCHANGED exc

BaseApiExceptionHandler ==
    /\ pc = "raised"
    /\ lookup_handler(exc) = "base_api_exception_handler"
    /\ sent' = Append(sent, base_api_exception_handler(exc))
    /\ call' = [call EXCEPT !.fn = "base_api_exception_handler"]
    /\ pc' = "done"
    /\ UNCHANGED exc

\* The response has been written to the client: the application awaits the
\* next request, keeping nothing of the one it served.
Complete ==
    /\ pc = "done"
    /\ pc' = "idle"
    /\ exc' = NoException
    /\ sent' = <<>>
    /\ call' = [fn |-> "none"]

Next ==
    \/ Root
    \/ HealthCheck
    \/ DetailedHealthCheck
    \/ SuccessResponse
    \/ ErrorResponse
    \/ PaginatedResponse
    \/ Raise
    \/ RaiseNotFound
    \/ GlobalExceptionHandler
    \/ HttpExceptionHandler
    \/ ValidationExceptionHandler
    \/ BaseApiExceptionHandler
    \/ Complete

Spec == Init /\ [][Next]_vars

(***************************************************************************)
(* Properties.                                                             *)
(***************************************************************************)
\* The request has been answered by one of the four exception handlers.
Handled == pc = "done" /\ call.fn \in HandlerNames

\* The request has been answered by a direct use of an envelope builder.
Built == call.fn \in {"success_response", "error_response",
                      "paginated_response", "health_check",
                      "detailed_health_check"}

\* ceil(a / b) for a >= 0 and b >= 1: the least n with n * b >= a.
Ceil(a, b) == CHOOSE n \in 0..a : n * b >= a /\ \A m \in 0..a : m * b >= a => n <= m

\* C1: for every (total, page, page_size) with page_size >= 1 the pagination
\* block of paginated_response has total_pages = ceil(total / page_size),
\* has_next = (page < total_pages) and has_previous = (page > 1); total=25,
\* page=2, page_size=10 gives 3/true/true and total=0, page=1, page_size=10
\* gives 0/false/false.
C1_PaginationBlock ==
    call.fn = "paginated_response" =>
        LET p == sent[1].body.pagination
        IN  /\ p.total = call.total
            /\ p.page = call.page
            /\ p.page_size = call.page_size
            /\ p.total_pages = Ceil(call.total, call.page_size)
            /\ p.has_next = (call.page < Ceil(call.total, call.page_size))
            /\ p.has_previous = (call.page > 1)
            /\ (call.total = 25 /\ call.page = 2 /\ call.page_size = 10) =>
                   (p.total_pages = 3 /\ p.has_next /\ p.has_previous)
            /\ (call.total = 0 /\ call.page = 1 /\ call.page_size = 10) =>
                   (p.total_pages = 0 /\ ~p.has_next /\ ~p.has_previous)

C1_Witness ==
    /\ call.fn = "paginated_response"
    /\ call.total = 25 /\ call.page = 2 /\ call.page_size = 10
    /\ sent[1].body.pagination.total_pages = 3
    /\ sent[1].body.pagination.has_next

\* C2: every response the application sends (root endpoint, health
\* endpoints, every handled failure) has a body in the Envelope shape: a
\* boolean `success`, a `message` and a `status_code`.
C2_EveryBodyIsEnvelope ==
    \A i \in DOMAIN sent :
        /\ {"success", "message", "status_code"} \subseteq DOMAIN sent[i].body
        /\ sent[i].body.success \in BOOLEAN

\* C3: the response built for an AuthenticationException carries the
\* challenge header the exception was constructed with.
C3_ChallengeHeaderSent ==
    (Handled /\ exc.cls = "AuthenticationException") =>
        /\ <<"WWW-Authenticate", "Bearer">> \in exc.headers
        /\ exc.headers \subseteq sent[1].headers

\* C4: in every envelope produced by the builders or the handlers, `data`
\* and `errors` are never both present: success envelopes never carry
\* `errors` and error envelopes never carry `data`.
C4_DataErrorsExclusive ==
    (Handled \/ Built) =>
        \A i \in DOMAIN sent :
            LET b == sent[i].body
            IN  /\ ~("data" \in DOMAIN b /\ "errors" \in DOMAIN b)
                /\ b.success => "errors" \notin DOMAIN b
                /\ ~b.success => "data" \notin DOMAIN b

C4_Witness ==
    /\ Handled
    /\ call.fn = "validation_exception_handler"
    /\ "errors" \in DOMAIN sent[1].body
    /\ "data" \notin DOMAIN sent[1].body

\* C5: in every envelope produced by the builders or the handlers, the
\* body's `status_code` equals the HTTP status code of the response that
\* carries it, whatever status code the caller or the failure supplies.
C5_StatusCodeMatchesTransport ==
    (Handled \/ Built) =>
        \A i \in DOMAIN sent :
            /\ sent[i].body.status_code = sent[i].status_code
            /\ call.fn \in {"success_response", "error_response"} =>
                   sent[i].status_code = call.status_code
            /\ (Handled /\ "status_code" \in DOMAIN exc) =>
                   sent[i].status_code = exc.status_code

C5_Witness ==
    /\ call.fn = "error_response"
    /\ call.status_code = 400
    /\ sent[1].status_code = 400
    /\ sent[1].body.status_code = 400

\* The handler registered for the most specific class of each failure.
MostSpecificHandler(cls) ==
    IF cls \in DomainClasses THEN "base_api_exception_handler"
    ELSE IF cls = "RequestValidationError" THEN "validation_exception_handler"
    ELSE IF cls = "StarletteHTTPException" THEN "http_exception_handler"
    ELSE "global_exception_handler"

\* C6: every failure raised while serving a request is converted to exactly
\* one error envelope by the most specific registered handler: an
\* unclassified exception gives 500 "Internal server error" and no `errors`;
\* a transport-level HTTP exception gives its own status code and detail
\* and no `errors`; a request-validation failure gives 422; a domain
\* exception gives its own status code and detail.
C6_FailureConvertedOnce ==
    /\ pc = "raised" =>
           /\ sent = <<>>
           /\ lookup_handler(exc) \in HandlerNames
           /\ ENABLED (\/ GlobalExceptionHandler
                       \/ HttpExceptionHandler
                       \/ ValidationExceptionHandler
                       \/ BaseApiExceptionHandler)
    /\ Handled =>
           /\ Len(sent) = 1
           /\ call.fn = MostSpecificHandler(exc.cls)
           /\ LET r == sent[1]
                  b == sent[1].body
              IN  /\ b.success = FALSE
                  /\ "data" \notin DOMAIN b
                  /\ exc.cls = "Exception" =>
                         /\ r.status_code = 500 /\ b.status_code = 500
                         /\ b.message = "Internal server error"
                         /\ "errors" \notin DOMAIN b
                  /\ exc.cls = "StarletteHTTPException" =>
                         /\ r.status_code = exc.status_code
                         /\ b.status_code = exc.status_code
                         /\ b.message = exc.detail
                         /\ "errors" \notin DOMAIN b
                  /\ exc.cls = "RequestValidationError" =>
                         r.status_code = 422 /\ b.status_code = 422
                  /\ exc.cls \in DomainClasses =>
                         /\ r.status_code = exc.status_code
                         /\ b.status_code = exc.status_code
                         /\ b.message = exc.detail

C6_Witness ==
    /\ Handled
    /\ exc.cls = "NotFoundException"
    /\ call.fn = "base_api_exception_handler"
    /\ sent[1].status_code = 404
    /\ Len(sent) = 1

\* The status code the taxonomy fixes for each domain category.
FixedStatus(cls) ==
    CASE cls = "NotFoundException"       -> 404
      [] cls = "ValidationException"     -> 422
      [] cls = "AuthenticationException" -> 401
      [] cls = "AuthorizationException"  -> 403
      [] cls = "ConflictException"       -> 409
      [] cls = "DatabaseException"       -> 500

\* C7: each domain exception category has a fixed status code that no
\* caller-supplied detail changes (404, 422, 401, 403, 409, 500), and the
\* envelope built from it has success=false, that status code, the
\* exception's detail as `message`, and no `errors` key.
C7_DomainExceptionEnvelope ==
    exc.cls \in DomainClasses =>
        /\ exc.status_code = FixedStatus(exc.cls)
        /\ Handled =>
               LET b == sent[1].body
               IN  /\ b.success = FALSE
                   /\ b.status_code = FixedStatus(exc.cls)
                   /\ sent[1].status_code = FixedStatus(exc.cls)
                   /\ b.message = exc.detail
                   /\ "errors" \notin DOMAIN b

C7_Witness ==
    /\ Handled
    /\ exc.cls = "ConflictException"
    /\ exc.detail = "custom detail"
    /\ sent[1].body.status_code = 409
    /\ sent[1].body.message = "custom detail"

\* C8: success_response always yields success=true with `message` and
\* `status_code` present; a supplied payload, empty ones included, is the
\* value of `data`, and `data` is omitted only when the payload is None.
C8_SuccessEnvelope ==
    call.fn = "success_response" =>
        LET b == sent[1].body
        IN  /\ b.success = TRUE
            /\ b.message = call.message
            /\ b.status_code = call.status_code
            /\ ("data" \in DOMAIN b) <=> (call.data # None)
            /\ call.data # None => b.data = call.data

C8_Witness ==
    /\ call.fn = "success_response"
    /\ call.data = PyVal("list", "[]")
    /\ "data" \in DOMAIN sent[1].body
    /\ sent[1].body.data = PyVal("list", "[]")

\* C9: error_response always yields success=false with `data` absent, and
\* `errors` is present if and only if the caller supplied a non-empty
\* field-error mapping.
C9_ErrorEnvelope ==
    call.fn = "error_response" =>
        LET b == sent[1].body
            supplied == call.errors.kind = "dict"
                        /\ Cardinality(DOMAIN call.errors.items) > 0
        IN  /\ b.success = FALSE
            /\ b.message = call.message
            /\ b.status_code = call.status_code
            /\ "data" \notin DOMAIN b
            /\ ("errors" \in DOMAIN b) <=> supplied
            /\ supplied => b.errors = call.errors.items

C9_Witness ==
    /\ call.fn = "error_response"
    /\ call.errors = Dict(<<>>)
    /\ "errors" \notin DOMAIN sent[1].body

\* The key the specification gives a field: its location path with only the
\* leading body-root segment removed, the rest joined by '.'.
DottedPath(loc) ==
    LET rest == IF loc # <<>> /\ loc[1] = S("body") THEN Tail(loc) ELSE loc
    IN  Join(".", [i \in DOMAIN rest |-> Str(rest[i])])

\* C10: for a request-validation failure the envelope has success=false,
\* status_code=422, message "Validation error", and `errors` has exactly one
\* entry per distinct invalid field, keyed by the field's location path with
\* only the leading body-root segment removed and the rest joined by '.';
\* distinct invalid fields map to distinct keys.
C10_ValidationErrorsKeyed ==
    (Handled /\ exc.cls = "RequestValidationError") =>
        LET b == sent[1].body
            errors == IF "errors" \in DOMAIN b THEN b.errors ELSE <<>>
            fields == {exc.errors[i].loc : i \in DOMAIN exc.errors}
        IN  /\ b.success = FALSE
            /\ b.status_code = 422
            /\ b.message = "Validation error"
            /\ DOMAIN errors = {DottedPath(loc) : loc \in fields}
            /\ Cardinality(DOMAIN errors) = Cardinality(fields)
            /\ \A l1, l2 \in fields :
                   l1 # l2 => DottedPath(l1) # DottedPath(l2)

\* C11: a not-found failure built with a resource name r and a supplied id
\* i has status_code 404 and message "r with id 'i' not found" for every
\* supplied id; built without an id it has message "r not found".
C11_NotFoundMessage ==
    (exc.cls = "NotFoundException" /\ "resource_id" \in DOMAIN call) =>
        LET r == call.resource
            message == IF call.resource_id # <<>>
                       THEN r \o " with id '" \o call.resource_id[1]
                              \o "' not found"
                       ELSE r \o " not found"
        IN  /\ exc.status_code = 404
            /\ exc.detail = message
            /\ Handled => /\ sent[1].body.status_code = 404
                          /\ sent[1].body.message = message

\* The index of the last reported error whose location maps to the key k.
LastReported(reported, k) ==
    CHOOSE i \in DOMAIN reported :
        /\ FieldKey(reported[i].loc) = k
        /\ \A j \in DOMAIN reported :
               FieldKey(reported[j].loc) = k => j <= i

\* C13: when a request-validation failure reports several errors whose
\* locations map to the same field key, `errors` keeps only the message of
\* the last such error in iteration order, so the number of `errors`
\* entries is the number of distinct keys, not of reported errors.
C13_LastWriteWins ==
    (Handled /\ exc.cls = "RequestValidationError") =>
        LET errors == sent[1].body.errors
            keys == {FieldKey(exc.errors[i].loc) : i \in DOMAIN exc.errors}
        IN  /\ DOMAIN errors = keys
            /\ Cardinality(DOMAIN errors) = Cardinality(keys)
            /\ \A k \in keys :
                   errors[k] = exc.errors[LastReported(exc.errors, k)].msg

C13_Witness ==
    /\ Handled
    /\ exc.cls = "RequestValidationError"
    /\ Len(exc.errors) = 2
    /\ exc.errors[1].loc = exc.errors[2].loc
    /\ exc.errors[1].msg = "required"
    /\ exc.errors[2].msg = "must be positive"
    /\ Cardinality(DOMAIN sent[1].body.errors) = 1
    /\ \A k \in DOMAIN sent[1].body.errors :
           sent[1].body.errors[k] = "must be positive"

====
